---- MODULE Spec2Model ----
(***************************************************************************)
(* Model of the genotype crate: the gene contract (RangedParam), the       *)
(* holder contract (ParamHolder) with the fixed-arity sets ParamSet2d and  *)
(* ParamSet3d, and the mutation operator mutate() driving a holder that is *)
(* shared through Rc<RefCell<_>>.                                          *)
(*                                                                         *)
(* Param is f64.  A Param is modelled as a record [c, v]: NaN, +infinity, *)
(* -infinity, or the finite value v / One (fixed point, One = 1.0).  Sums  *)
(* of the values used here are exact in this representation; comparisons   *)
(* with NaN are false, as in IEEE 754.                                     *)
(***************************************************************************)
EXTENDS Integers, Sequences, FiniteSets, TLC

VARIABLES kind, genes, flag, pc, entry, n, i, p, v0, glog, acq, err, probe

vars == <<kind, genes, flag, pc, entry, n, i, p, v0, glog, acq, err, probe>>

(* ------------------------------ Param (f64) --------------------------- *)

\* 1.0 in fixed point: the unit of the unscaled value (0.05 steps).
One == 20

NaN == [c |-> "nan", v |-> 0]

PosInf == [c |-> "inf", v |-> 0]

NegInf == [c |-> "ninf", v |-> 0]

F(x) == [c |-> "fin", v |-> x]

\* f64 addition: NaN is absorbing, and inf + -inf is NaN.
Add(a, b) ==
  IF a.c = "nan" \/ b.c = "nan" THEN NaN
  ELSE IF a.c = "fin" /\ b.c = "fin" THEN F(a.v + b.v)
  ELSE IF a.c = "fin" THEN b
  ELSE IF b.c = "fin" THEN a
  ELSE IF a.c = b.c THEN a
  ELSE NaN

\* f64 `<`: false whenever an operand is NaN.
Lt(a, b) ==
  /\ a.c # "nan"
  /\ b.c # "nan"
  /\ \/ a.c = "ninf" /\ b.c # "ninf"
     \/ b.c = "inf" /\ a.c # "inf"
     \/ a.c = "fin" /\ b.c = "fin" /\ a.v < b.v

\* f64 `>`.
Gt(a, b) == Lt(b, a)

\* Unscaled values a consumer constructs genes with:
\* -0.5, 0.0, 0.1, 1.5, NaN, +infinity.
InitVals == {F(-10), F(0), F(2), F(30), NaN, PosInf}

\* Offsets a MutationGen may return: -0.5, 0.0, 0.5, 1.5, NaN, -infinity.
Offsets == {F(-10), F(0), F(10), F(30), NaN, NegInf}

(* --------------------------- holders and genes ------------------------ *)

Panic == "panic"

Kinds == {"TestHolder", "Human", "MultiShape", "Shape",
          "ParamSet2d", "ParamSet3d", "Empty", "Holey"}

\* The gene fields each holder owns.
Fields(k) ==
  CASE k = "TestHolder" -> {"x"}
    [] k = "Human"      -> {"weight", "height"}
    [] k = "MultiShape" -> {"0.x", "0.y", "0.z"}
    [] k = "Shape"      -> {"dimensions.x", "dimensions.y", "rotation"}
    [] k = "ParamSet2d" -> {"x", "y"}
    [] k = "ParamSet3d" -> {"x", "y", "z"}
    [] k = "Empty"      -> {}
    [] k = "Holey"      -> {"a", "c"}

\* RangedParam::range of each gene type, <<min, max>> in whole units.
range(k, f) ==
  CASE k = "TestHolder" -> <<0, 20>>
    [] k = "Human"      -> IF f = "weight" THEN <<40, 100>> ELSE <<140, 185>>
    [] k = "MultiShape" -> <<0, 10>>
    [] k = "Shape"      -> IF f = "rotation" THEN <<0, 360>> ELSE <<1, 20>>
    [] k = "ParamSet2d" -> <<1, 20>>
    [] k = "ParamSet3d" -> <<0, 10>>
    [] OTHER            -> <<0, 1>>

\* RangedParam::get_scaled: (max - min) * get() + min, in units of 1/One.
get_scaled(k, f, val) ==
  LET min == range(k, f)[1]
      max == range(k, f)[2]
  IN  IF val.c = "nan" THEN NaN
      ELSE IF val.c = "fin" THEN F((max - min) * val.v + min * One)
      ELSE IF max = min THEN NaN
      ELSE IF (max > min) = (val.c = "inf") THEN PosInf
      ELSE NegInf

\* ParamSet3d::get_param without the modulo: an index past z panics.
ParamSet3d_get_param_strict(index) ==
  CASE index = 0 -> "x"
    [] index = 1 -> "y"
    [] index = 2 -> "z"
    [] OTHER     -> Panic

\* ParamSet3d::get_param: match index % 3.
ParamSet3d_get_param(index) ==
  CASE index % 3 = 0 -> "x"
    [] index % 3 = 1 -> "y"
    [] index % 3 = 2 -> "z"
    [] OTHER         -> Panic

\* ParamSet2d::get_param with the arms of x and y exchanged.
ParamSet2d_get_param_swapped(index) ==
  CASE index % 2 = 0 -> "y"
    [] index % 2 = 1 -> "x"
    [] OTHER         -> Panic

\* ParamSet2d::get_param: match index % 2.
ParamSet2d_get_param(index) ==
  CASE index % 2 = 0 -> "x"
    [] index % 2 = 1 -> "y"
    [] OTHER         -> Panic

\* A gene of the set held in field `owner` of the enclosing holder.
Within(owner, r) ==
  IF r = Panic THEN Panic
  ELSE CASE owner = "dimensions" /\ r = "x" -> "dimensions.x"
         [] owner = "dimensions" /\ r = "y" -> "dimensions.y"
         [] owner = "0" /\ r = "x" -> "0.x"
         [] owner = "0" /\ r = "y" -> "0.y"
         [] owner = "0" /\ r = "z" -> "0.z"
         [] OTHER -> Panic

TestHolder_get_param(index) ==
  IF index = 0 THEN "x" ELSE Panic

Human_get_param(index) ==
  CASE index = 0 -> "weight"
    [] index = 1 -> "height"
    [] OTHER     -> Panic

MultiShape_get_param(index) ==
  IF index \in 0..2 THEN Within("0", ParamSet3d_get_param(index)) ELSE Panic

Shape_get_param(index) ==
  CASE index \in 0..1 -> Within("dimensions", ParamSet2d_get_param(index))
    [] index = 2      -> "rotation"
    [] OTHER          -> Panic

\* A consumer's holder with no genes.
Empty_get_param(index) == Panic

\* A consumer's holder whose param_count (3) disagrees with get_param,
\* which has arms for 0 and 2 only.
Holey_get_param(index) ==
  CASE index = 0 -> "a"
    [] index = 2 -> "c"
    [] OTHER     -> Panic

\* ParamHolder::get_param, dispatched on the holder's type.
get_param(k, index) ==
  CASE k = "TestHolder" -> TestHolder_get_param(index)
    [] k = "Human"      -> Human_get_param(index)
    [] k = "MultiShape" -> MultiShape_get_param(index)
    [] k = "Shape"      -> Shape_get_param(index)
    [] k = "ParamSet2d" -> ParamSet2d_get_param(index)
    [] k = "ParamSet3d" -> ParamSet3d_get_param(index)
    [] k = "Empty"      -> Empty_get_param(index)
    [] k = "Holey"      -> Holey_get_param(index)

\* ParamHolder::param_count, dispatched on the holder's type.
param_count(k) ==
  CASE k = "TestHolder" -> 1
    [] k = "Human"      -> 2
    [] k = "MultiShape" -> 3
    [] k = "Shape"      -> 2 + 1
    [] k = "ParamSet2d" -> 2
    [] k = "ParamSet3d" -> 3
    [] k = "Empty"      -> 0
    [] k = "Holey"      -> 3

\* add_assign with the lower bound forgotten.
add_assign_no_lower(self, rhs) ==
  LET val == Add(self, rhs)
  IN  IF Gt(val, F(One)) THEN F(One) ELSE val

\* add_assign with the upper bound forgotten.
add_assign_no_upper(self, rhs) ==
  LET val == Add(self, rhs)
  IN  IF Lt(val, F(0)) THEN F(0) ELSE val

\* AddAssign<Param> for &mut RangedParam: the clamped additive update.
add_assign(self, rhs) ==
  LET val == Add(self, rhs)
  IN  IF Lt(val, F(0)) THEN F(0)
      ELSE IF Gt(val, F(One)) THEN F(One)
      ELSE val

(* ------------------------------- state -------------------------------- *)

\* Shared borrows the caller may hold at once.
MaxShared == 1

\* Largest index handed to get_param directly.
MaxIndex == 6

NoProbe == [idx |-> -1, res |-> "none"]

NoAcq == [shared |-> 0, excl |-> 0]

Init ==
  /\ kind \in Kinds
  /\ genes \in [Fields(kind) -> InitVals]
  /\ flag = 0
  /\ pc = "idle"
  /\ entry = 0
  /\ n = 0
  /\ i = 0
  /\ p = "none"
  /\ v0 = genes
  /\ glog = <<>>
  /\ acq = NoAcq
  /\ err = "none"
  /\ probe = NoProbe

(* ------------------------------ the caller ---------------------------- *)

\* holder.borrow(), kept by the caller.
CallerBorrow ==
  /\ pc = "idle"
  /\ flag >= 0
  /\ flag < MaxShared
  /\ flag' = flag + 1
  /\ UNCHANGED <<kind, genes, pc, entry, n, i, p, v0, glog, acq, err, probe>>

\* holder.borrow_mut(), kept by the caller.
CallerBorrowMut ==
  /\ pc = "idle"
  /\ flag = 0
  /\ flag' = -1
  /\ UNCHANGED <<kind, genes, pc, entry, n, i, p, v0, glog, acq, err, probe>>

\* The caller drops a Ref or its RefMut.
CallerDrop ==
  /\ pc = "idle"
  /\ flag # 0
  /\ flag' = IF flag > 0 THEN flag - 1 ELSE flag + 1
  /\ UNCHANGED <<kind, genes, pc, entry, n, i, p, v0, glog, acq, err, probe>>

\* holder.borrow_mut().get_param(index), called directly.
CallerGetParam ==
  /\ pc = "idle"
  /\ flag = 0
  /\ \E index \in 0..MaxIndex :
       probe' = [idx |-> index, res |-> get_param(kind, index)]
  /\ UNCHANGED <<kind, genes, flag, pc, entry, n, i, p, v0, glog, acq, err>>

(* ------------------------------- mutate ------------------------------- *)

\* mutate(param_holder.clone(), &mut gen) is entered.
MutateCall ==
  /\ pc = "idle"
  /\ pc' = "count"
  /\ entry' = flag
  /\ probe' = NoProbe
  /\ UNCHANGED <<kind, genes, flag, n, i, p, v0, glog, acq, err>>

\* param_holder.borrow(): BorrowError when exclusively borrowed.
BorrowShared ==
  /\ pc = "count"
  /\ IF flag < 0
       THEN /\ pc' = "panicked"
            /\ err' = "BorrowError"
            /\ UNCHANGED <<flag, acq>>
       ELSE /\ flag' = flag + 1
            /\ acq' = [acq EXCEPT !.shared = @ + 1]
            /\ pc' = "param_count"
            /\ UNCHANGED err
  /\ UNCHANGED <<kind, genes, entry, n, i, p, v0, glog, probe>>

\* let n = <Ref>.param_count(); the temporary Ref is dropped.
ParamCount ==
  /\ pc = "param_count"
  /\ n' = param_count(kind)
  /\ flag' = flag - 1
  /\ pc' = "loop"
  /\ UNCHANGED <<kind, genes, entry, i, p, v0, glog, acq, err, probe>>

\* The loop written `for i in 0..=n`.
Loop_inclusive ==
  /\ pc = "loop"
  /\ IF i <= n
       THEN IF flag # 0
              THEN /\ pc' = "panicked"
                   /\ err' = "BorrowMutError"
                   /\ UNCHANGED <<flag, acq>>
              ELSE /\ flag' = -1
                   /\ acq' = [acq EXCEPT !.excl = @ + 1]
                   /\ pc' = "get_param"
                   /\ UNCHANGED err
       ELSE /\ pc' = "done"
            /\ UNCHANGED <<flag, acq, err>>
  /\ UNCHANGED <<kind, genes, entry, n, i, p, v0, glog, probe>>

\* The loop reaching the holder without the RefCell's check (as_ptr).
Loop_unchecked ==
  /\ pc = "loop"
  /\ IF i < n
       THEN /\ pc' = "get_param"
            /\ acq' = [acq EXCEPT !.excl = @ + 1]
            /\ UNCHANGED <<flag, err>>
       ELSE /\ pc' = "done"
            /\ UNCHANGED <<flag, acq, err>>
  /\ UNCHANGED <<kind, genes, entry, n, i, p, v0, glog, probe>>

\* for i in 0..n { let mut holder = param_holder.borrow_mut();
Loop ==
  /\ pc = "loop"
  /\ IF i < n
       THEN IF flag # 0
              THEN /\ pc' = "panicked"
                   /\ err' = "BorrowMutError"
                   /\ UNCHANGED <<flag, acq>>
              ELSE /\ flag' = -1
                   /\ acq' = [acq EXCEPT !.excl = @ + 1]
                   /\ pc' = "get_param"
                   /\ UNCHANGED err
       ELSE /\ pc' = "done"
            /\ UNCHANGED <<flag, acq, err>>
  /\ UNCHANGED <<kind, genes, entry, n, i, p, v0, glog, probe>>

\* The iteration written with gen() called before get_param(i).
GetParam_after_gen ==
  /\ pc = "get_param"
  /\ LET r == get_param(kind, i)
     IN  IF r = Panic
           THEN /\ pc' = "panicked"
                /\ err' = "BadIndex"
                /\ flag' = flag + 1
                /\ \E d \in Offsets :
                     glog' = Append(glog, [i |-> i, f |-> Panic, d |-> d])
                /\ UNCHANGED p
           ELSE /\ p' = r
                /\ pc' = "gen"
                /\ UNCHANGED <<flag, err, glog>>
  /\ UNCHANGED <<kind, genes, entry, n, i, v0, acq, probe>>

\* let mut p = holder.get_param(i); a panic unwinds and drops `holder`.
GetParam ==
  /\ pc = "get_param"
  /\ LET r == get_param(kind, i)
     IN  IF r = Panic
           THEN /\ pc' = "panicked"
                /\ err' = "BadIndex"
                /\ flag' = flag + 1
                /\ UNCHANGED p
           ELSE /\ p' = r
                /\ pc' = "gen"
                /\ UNCHANGED <<flag, err>>
  /\ UNCHANGED <<kind, genes, entry, n, i, v0, glog, acq, probe>>

\* The iteration with `holder` kept alive past its end.
GenAddAssign_keeps_borrow ==
  /\ pc = "gen"
  /\ \E d \in Offsets :
       /\ glog' = Append(glog, [i |-> i, f |-> p, d |-> d])
       /\ genes' = [genes EXCEPT ![p] = add_assign(@, d)]
  /\ i' = i + 1
  /\ pc' = "loop"
  /\ UNCHANGED <<kind, flag, entry, n, p, v0, acq, err, probe>>

\* p += mut_gen.gen(); } : the iteration ends and `holder` is dropped.
GenAddAssign ==
  /\ pc = "gen"
  /\ \E d \in Offsets :
       /\ glog' = Append(glog, [i |-> i, f |-> p, d |-> d])
       /\ genes' = [genes EXCEPT ![p] = add_assign(@, d)]
  /\ flag' = flag + 1
  /\ i' = i + 1
  /\ pc' = "loop"
  /\ UNCHANGED <<kind, entry, n, p, v0, acq, err, probe>>

\* mutate has returned or panicked; the caller goes on with the holder.
Return ==
  /\ pc \in {"done", "panicked"}
  /\ pc' = "idle"
  /\ entry' = 0
  /\ n' = 0
  /\ i' = 0
  /\ p' = "none"
  /\ v0' = genes
  /\ glog' = <<>>
  /\ acq' = NoAcq
  /\ err' = "none"
  /\ UNCHANGED <<kind, genes, flag, probe>>

Next ==
  \/ CallerBorrow
  \/ CallerBorrowMut
  \/ CallerDrop
  \/ CallerGetParam
  \/ MutateCall
  \/ BorrowShared
  \/ ParamCount
  \/ Loop
  \/ GetParam
  \/ GenAddAssign
  \/ Return

Spec == Init /\ [][Next]_vars


(* ------------------------------ properties ---------------------------- *)

\* The gene fields of a holder in declared order; "none" where the holder
\* has no gene for the index.
Declared(k) ==
  CASE k = "TestHolder" -> <<"x">>
    [] k = "Human"      -> <<"weight", "height">>
    [] k = "MultiShape" -> <<"0.x", "0.y", "0.z">>
    [] k = "Shape"      -> <<"dimensions.x", "dimensions.y", "rotation">>
    [] k = "ParamSet2d" -> <<"x", "y">>
    [] k = "ParamSet3d" -> <<"x", "y", "z">>
    [] k = "Empty"      -> <<>>
    [] k = "Holey"      -> <<"a", "none", "c">>

\* The unscaled value lies in [0.0, 1.0].
InUnit(x) == x.c = "fin" /\ 0 <= x.v /\ x.v <= One

\* clamp(x, 0.0, 1.0) as f64::clamp computes it (NaN stays NaN).
ClampRef(x) ==
  CASE x.c = "nan"  -> NaN
    [] x.c = "inf"  -> F(One)
    [] x.c = "ninf" -> F(0)
    [] OTHER        -> IF x.v < 0 THEN F(0) ELSE IF x.v > One THEN F(One) ELSE x

\* min + (max - min) * x of a finite x, in units of 1/One.
ScaledRef(k, f, x) == F(range(k, f)[1] * One + (range(k, f)[2] - range(k, f)[1]) * x.v)

BorrowErrors == {"BorrowError", "BorrowMutError"}

\* C1: after mutate returns, every gene's unscaled value lies in [0.0, 1.0],
\* whatever the initial values and the offsets, after any number of calls.
C1_ClampInvariant ==
  pc = "done" => \A f \in Fields(kind) : InUnit(genes[f])

\* C2: a mutate that returns has called gen() exactly param_count() times,
\* and the k-th call was made for gene index k - 1 (ascending order).
C2_GenCalls ==
  /\ \A k \in 1..Len(glog) : glog[k].i = k - 1
  /\ pc = "done" => Len(glog) = param_count(kind)

C2_Witness ==
  /\ pc = "done"
  /\ kind = "MultiShape"
  /\ Len(glog) = 3
  /\ glog[3].i = 2

\* C3: after mutate, the gene at flat index idx holds
\* clamp(v_idx + d_idx, 0, 1), d_idx being the offset of the (idx+1)-th
\* gen() call, and its scaled value is min + (max - min) * that value.
C3_PerGeneResult ==
  pc = "done" =>
    \A idx \in 0..(param_count(kind) - 1) :
      LET f == Declared(kind)[idx + 1]
          r == ClampRef(Add(v0[f], glog[idx + 1].d))
      IN  /\ genes[f] = r
          /\ r.c = "fin" => get_scaled(kind, f, genes[f]) = ScaledRef(kind, f, r)

\* Range (0,20), v = 0, d = 0.5 gives scaled 10; a 3-set of range (0,10)
\* is covered by the same formula.
C3_Witness ==
  /\ pc = "done"
  /\ kind = "TestHolder"
  /\ v0["x"] = F(0)
  /\ glog[1].d = F(10)
  /\ genes["x"] = F(10)
  /\ get_scaled(kind, "x", genes["x"]) = F(10 * One)

AllZero == \A k \in 1..Len(glog) : glog[k].d = F(0)

\* C4 as stated: a generator that always returns 0 leaves every gene
\* unchanged, whatever value the gene was constructed with.
C4_NoOpEveryValue ==
  (pc = "done" /\ AllZero) => genes = v0

\* C4 amended: a generator that always returns 0 leaves every gene whose
\* value is in [0.0, 1.0] unchanged; a value below 0 becomes 0.0 and a
\* value above 1 becomes 1.0.
C4_NoOpInRange ==
  (pc = "done" /\ AllZero) =>
    \A f \in Fields(kind) :
      /\ InUnit(v0[f]) => genes[f] = v0[f]
      /\ Lt(v0[f], F(0)) => genes[f] = F(0)
      /\ Gt(v0[f], F(One)) => genes[f] = F(One)

C4_Witness ==
  /\ pc = "done"
  /\ AllZero
  /\ kind = "Human"
  /\ v0["weight"] = F(2)
  /\ genes["weight"] = F(2)
  /\ v0["height"] = F(-10)
  /\ genes["height"] = F(0)

\* C5: get_param(index) with index >= param_count() panics, for every
\* holder, the library's ParamSet2d and ParamSet3d included.
C5_OutOfRangeFails ==
  (probe.idx >= 0 /\ probe.idx >= param_count(kind)) => probe.res = Panic

\* C6: for the composite Shape (a ParamSet2d and one more gene),
\* param_count is 3, get_param(0), (1), (2) are dimensions.x, dimensions.y
\* and rotation, and mutate updates these three genes once each, in order.
C6_CompositeIndexing ==
  kind = "Shape" =>
    /\ param_count(kind) = 3
    /\ probe.idx = 0 => probe.res = "dimensions.x"
    /\ probe.idx = 1 => probe.res = "dimensions.y"
    /\ probe.idx = 2 => probe.res = "rotation"
    /\ pc = "done" =>
         /\ Len(glog) = 3
         /\ glog[1].f = "dimensions.x"
         /\ glog[2].f = "dimensions.y"
         /\ glog[3].f = "rotation"

C6_Witness ==
  /\ kind = "Shape"
  /\ pc = "done"
  /\ Len(glog) = 3
  /\ \A f \in Fields(kind) : genes[f] # v0[f]

\* C7 as stated: with a shared or exclusive borrow outstanding at the call,
\* mutate never completes and changes nothing, for every param_count.
C7_ConflictAlwaysFails ==
  (pc # "idle" /\ entry # 0) =>
    /\ pc # "done"
    /\ genes = v0
    /\ glog = <<>>

\* C7 amended: with an exclusive borrow outstanding, or with a shared one
\* and param_count >= 1, mutate ends in a borrow-conflict panic before any
\* gene is reached and before gen() is called; with only shared borrows
\* outstanding and param_count = 0 it returns normally, having done nothing.
C7_ConflictFailsFast ==
  (pc # "idle" /\ entry # 0) =>
    /\ genes = v0
    /\ glog = <<>>
    /\ acq.excl = 0
    /\ pc \in {"count", "param_count", "loop", "panicked", "done"}
    /\ pc = "panicked" => err \in BorrowErrors
    /\ (entry < 0 \/ param_count(kind) > 0) =>
         /\ pc # "done"
         /\ pc = "loop" => (i < n /\ flag # 0)
    /\ (entry > 0 /\ param_count(kind) = 0) => pc # "panicked"

C7_Witness ==
  /\ pc = "panicked"
  /\ entry > 0
  /\ err = "BorrowMutError"
  /\ kind = "MultiShape"

\* C8: entered with no borrow outstanding, mutate never raises a borrow
\* conflict; the shared borrow is released before the first exclusive one,
\* each iteration takes one exclusive borrow and releases it at its end, no
\* two borrows are held at once, and none is held when mutate returns.
C8_ScopedBorrows ==
  (pc # "idle" /\ entry = 0) =>
    /\ err \notin BorrowErrors
    /\ flag = (CASE pc = "param_count" -> 1
                 [] pc \in {"get_param", "gen"} -> -1
                 [] OTHER -> 0)
    /\ acq.shared = (IF pc = "count" THEN 0 ELSE 1)
    /\ acq.excl = i + (IF pc \in {"get_param", "gen", "panicked"} THEN 1 ELSE 0)

C8_Witness ==
  /\ pc = "done"
  /\ entry = 0
  /\ flag = 0
  /\ acq = [shared |-> 1, excl |-> 3]

\* C9: when get_param panics at index k < n during mutate, genes before k
\* hold their clamped updates, genes from k on are unchanged, gen() has
\* been called exactly k times, and the exclusive borrow is released.
C9_PartialFailure ==
  (pc = "panicked" /\ err = "BadIndex") =>
    /\ i < n
    /\ Len(glog) = i
    /\ flag = 0
    /\ \A idx \in 0..(n - 1) :
         LET f == Declared(kind)[idx + 1]
         IN  f # "none" =>
               genes[f] = (IF idx < i
                             THEN ClampRef(Add(v0[f], glog[idx + 1].d))
                             ELSE v0[f])

C9_Witness ==
  /\ pc = "panicked"
  /\ err = "BadIndex"
  /\ i = 1
  /\ genes["a"] # v0["a"]
  /\ genes["c"] = v0["c"]

Arity(k) == IF k = "ParamSet2d" THEN 2 ELSE 3

====
